---- MODULE Spec2Model ----
(***************************************************************************)
(* The activities signup client of src/static/app.js: the DOM it writes    *)
(* (list container, dropdown, signup form, message area), its pending      *)
(* fetch requests and hide timers, and the activity store it talks to.     *)
(* Every step is one run-to-completion task of the page's event loop: a    *)
(* user event handler up to its first await, or the continuation of an     *)
(* async function after the response it awaits.                            *)
(***************************************************************************)
EXTENDS Integers, Sequences, FiniteSets, TLC

\* ------------------------------------------------------------------ bounds
\* Number of fetch requests the page issues in a run, the initial load included.
MaxRequests == 3
\* Number of disturbances from the environment in a run: transport failures,
\* answers that do not come from the store's logic, and changes other users
\* make to the store.
MaxFaults == 1
\* Clock granularity: the clock advances in steps of HideDelay \div TicksPerDelay.
TicksPerDelay == 2

\* --------------------------------------------------------- program constants
\* setTimeout(..., 5000) of both handlers.
HideDelay == 5000

\* JavaScript's undefined (a property the parsed JSON object does not have).
Undefined == "<undefined>"
\* Values that `||` treats as false among the strings the model uses.
Falsy == {Undefined, ""}
\* A slip in a || b: the fallback is taken whatever a is.
OrElse_AlwaysFallback(a, b) == b
\* a || b
OrElse(a, b) == IF a \in Falsy THEN b ELSE a

PlaceholderOption == [value |-> "", textContent |-> "-- Select an activity --"]
FailedToLoad == "Failed to load activities. Please try again later."
AnErrorOccurred == "An error occurred"
FailedToSignUp == "Failed to sign up. Please try again."
FailedToUnregister == "Failed to unregister participant. Please try again."

\* ------------------------------------------------------- the activity store
\* The backend is not part of the client; it is modelled from the interface
\* the client consumes: a map from activity name to details, signup and
\* unregister that enforce capacity, uniqueness and membership.
Names == <<"Chess Club">>
MaxParticipants == [n \in {"Chess Club"} |-> 2]
InitialStore == [n \in {"Chess Club"} |-> <<"a@x.com">>]
\* The addresses the user types into the form.
Emails == {"b@x.com"}
\* The addresses other users of the store sign up or unregister.
OtherEmails == {"a@x.com", "c@x.com"}
\* The activity names and addresses of the maps rendered under SpecRender.
RenderNames == {"Chess Club", "Men's Club", "Art"}
RenderEmails == {"a@x.com", "o'neil@x.com", "b@x.com"}

SeqToSet(s) == {s[i] : i \in 1..Len(s)}

RECURSIVE Without(_, _)
Without(s, x) ==
    IF s = <<>> THEN <<>>
    ELSE IF Head(s) = x THEN Without(Tail(s), x)
    ELSE <<Head(s)>> \o Without(Tail(s), x)

\* One entry of the JSON object GET /activities returns, in key order.
Entry(st, n) ==
    [name |-> n,
     details |-> [description |-> "about " \o n,
                  schedule |-> "weekly",
                  max_participants |-> MaxParticipants[n],
                  hasParticipants |-> TRUE,
                  participants |-> st[n]]]
Snapshot(st) == [i \in 1..Len(Names) |-> Entry(st, Names[i])]

\* The JSON body of an error answer to GET /activities, {"detail": "..."}:
\* Object.entries gives one entry whose value has no `participants`.
ErrorBody ==
    <<[name |-> "detail",
       details |-> [description |-> Undefined, schedule |-> Undefined,
                    max_participants |-> 0, hasParticipants |-> FALSE,
                    participants |-> <<>>]]>>

\* A response as the client sees it: response.ok, whether response.json()
\* resolves, and the fields of the parsed object.
Response(ok, parses, message, detail, body) ==
    [ok |-> ok, parses |-> parses, message |-> message, detail |-> detail,
     body |-> body]
NoResponse == Response(FALSE, FALSE, Undefined, Undefined, <<>>)

VARIABLES
    activitiesList,   \* #activities-list: [text, cards]
    activitySelect,   \* #activity: the sequence of its options
    form,             \* #signup-form: [email, activity] field values
    messageDiv,       \* #message: [textContent, classList]
    timers,           \* pending hide timers: remaining delay of each, oldest first
    net,              \* fetch requests in flight
    issued,           \* number of fetch requests issued so far
    console,          \* console.error calls, counted per call site
    store,            \* the backend's activity map (participants per name)
    faults,           \* disturbances from the environment so far
    lastGet,          \* the last GET /activities answer processed
    last              \* the client task that ran last

vars == <<activitiesList, activitySelect, form, messageDiv, timers, net,
          issued, console, store, faults, lastGet, last>>

\* ------------------------------------------------------------- primitives
\* A fetch in flight: what was asked, whether unregisterParticipant awaits
\* the fetchActivities call it belongs to, the answer once the store has
\* given one, and (for a signup, for reference) the dropdown as it was when
\* the form was submitted.
Request(id, method, activity, email, refreshDropdown, awaited, select) ==
    [id |-> id, method |-> method, activity |-> activity, email |-> email,
     refreshDropdown |-> refreshDropdown, awaited |-> awaited,
     phase |-> "sent", resp |-> NoResponse, select |-> select]
NoRequest == Request(0, "", "", "", FALSE, FALSE, <<>>)

Step(op, r) == [op |-> op, req |-> r]

Hidden == "hidden" \in messageDiv.classList

\* messageDiv.textContent = text; messageDiv.className = cls;
SetMessage(text, cls) == [textContent |-> text, classList |-> {cls}]
\* messageDiv.classList.remove("hidden")
RemoveHidden(m) == [m EXCEPT !.classList = @ \ {"hidden"}]
\* messageDiv.classList.add("hidden")
AddHidden(m) == [m EXCEPT !.classList = @ \cup {"hidden"}]
\* A change of setTimeout's use: the pending hide is cancelled first.
SetTimeout_CancelPending(ts) == <<HideDelay>>
\* setTimeout(() => {...}, 5000)
SetTimeout(ts) == Append(ts, HideDelay)

\* ------------------------------------------------------------- rendering
\* String(n) for the counts that occur.
NumStr(n) == <<"0", "1", "2", "3", "4", "5", "6", "7", "8", "9">>[n + 1]

\* One <option> appended to the dropdown.
Option(name) == [value |-> name, textContent |-> name]

\* The position of the first occurrence of the character c in s at or after
\* `from`, or 0 when there is none.
RECURSIVE IndexOf(_, _, _)
IndexOf(s, c, from) ==
    IF from > Len(s) THEN 0
    ELSE IF SubSeq(s, from, from) = c THEN from
    ELSE IndexOf(s, c, from + 1)

\* The text the template puts between the double quotes of onclick="...".
OnclickAttr(name, email) ==
    "unregisterParticipant('" \o name \o "', '" \o email \o "')"

\* The value the HTML parser gives the attribute: the text up to the first
\* double quote.
AttrValue(text) ==
    LET q == IndexOf(text, "\"", 1) IN
    IF q = 0 THEN text ELSE SubSeq(text, 1, q - 1)

\* What a click on the button calls: the script is a call of
\* unregisterParticipant with two single-quoted string literals, each ending
\* at the next single quote; the arguments of the call, or <<>> when the
\* script is not of that form (for the names drawn here it then does not
\* compile and the click calls nothing).
OnclickCall(script) ==
    LET open == "unregisterParticipant('"
        a1 == Len(open) + 1
        q1 == IndexOf(script, "'", a1)
        a2 == q1 + 4
        q2 == IndexOf(script, "'", a2)
    IN  IF /\ SubSeq(script, 1, Len(open)) = open
           /\ q1 > 0
           /\ SubSeq(script, q1, q1 + 3) = "', '"
           /\ q2 > 0
           /\ SubSeq(script, q2, Len(script)) = "')"
        THEN <<SubSeq(script, a1, q1 - 1), SubSeq(script, a2, q2 - 1)>>
        ELSE <<>>

\* What the delete button of a row calls, for every activity name and email
\* that occur, as a table (worked out once).
Onclick ==
    [n \in RenderNames \cup SeqToSet(Names),
     e \in RenderEmails \cup Emails \cup OtherEmails |->
        OnclickCall(AttrValue(OnclickAttr(n, e)))] @@ <<>>

\* One participant row: the email and what the delete button calls.
ParticipantItem(name, email) ==
    [email |-> email, onclick |-> Onclick[name, email]]

\* details.participants.length > 0 ? rows : "No participants yet"
ParticipantsList(name, details) ==
    IF Len(details.participants) > 0
    THEN [rows |-> [i \in 1..Len(details.participants) |->
                       ParticipantItem(name, details.participants[i])],
          placeholder |-> ""]
    ELSE [rows |-> <<>>, placeholder |-> "No participants yet"]

\* A slip in line 43: spotsLeft is printed where the count belongs.
ActivityCard_SpotsLeft(name, details) ==
    [name |-> name,
     description |-> details.description,
     schedule |-> details.schedule,
     capacity |-> NumStr(details.max_participants - Len(details.participants))
                    \o "/" \o NumStr(details.max_participants),
     participantsList |-> ParticipantsList(name, details)]

\* The card built for one entry of the activity map.
ActivityCard(name, details) ==
    [name |-> name,
     description |-> details.description,
     schedule |-> details.schedule,
     capacity |-> NumStr(Len(details.participants)) \o "/"
                    \o NumStr(details.max_participants),
     participantsList |-> ParticipantsList(name, details)]

\* Object.entries(activities).forEach(...): cards and options appended entry
\* by entry; reading details.participants.length of an entry without
\* participants throws and ends the loop.
RECURSIVE ForEachEntry(_, _)
ForEachEntry(entries, acc) ==
    IF entries = <<>> THEN acc
    ELSE LET e == Head(entries) IN
         IF ~e.details.hasParticipants
         THEN [acc EXCEPT !.threw = TRUE]
         ELSE ForEachEntry(Tail(entries),
                  [cards |-> Append(acc.cards, ActivityCard(e.name, e.details)),
                   options |-> Append(acc.options, Option(e.name)),
                   threw |-> FALSE])

FailedList == [text |-> FailedToLoad, cards |-> <<>>]
LoadingList == [text |-> "loading", cards |-> <<>>]
CardList(cards) == [text |-> "", cards |-> cards]

\* A slip in the catch block: the cards appended before the throw stay.
RenderActivities_KeepCards(body, refreshDropdown, select) ==
    LET out == ForEachEntry(body, [cards |-> <<>>, options |-> <<>>, threw |-> FALSE])
    IN  [list |-> CardList(out.cards),
         select |-> IF refreshDropdown
                    THEN <<PlaceholderOption>> \o out.options
                    ELSE select,
         caught |-> out.threw]

\* A slip in line 18: the dropdown is not reset before the options are added.
RenderActivities_AppendOptions(body, refreshDropdown, select) ==
    LET out == ForEachEntry(body, [cards |-> <<>>, options |-> <<>>, threw |-> FALSE])
    IN  [list |-> IF out.threw THEN FailedList ELSE CardList(out.cards),
         select |-> IF refreshDropdown THEN select \o out.options ELSE select,
         caught |-> out.threw]

\* A slip in lines 17 and 53: the dropdown is rebuilt whatever the argument.
RenderActivities_AlwaysRefresh(body, refreshDropdown, select) ==
    LET out == ForEachEntry(body, [cards |-> <<>>, options |-> <<>>, threw |-> FALSE])
    IN  [list |-> IF out.threw THEN FailedList ELSE CardList(out.cards),
         select |-> <<PlaceholderOption>> \o out.options,
         caught |-> out.threw]

\* A slip in line 14: the list container is not cleared before the cards are
\* appended.
RenderActivities_NoClear(body, refreshDropdown, select) ==
    LET out == ForEachEntry(body, [cards |-> <<>>, options |-> <<>>, threw |-> FALSE])
    IN  [list |-> IF out.threw THEN FailedList
                  ELSE CardList(activitiesList.cards \o out.cards),
         select |-> IF refreshDropdown
                    THEN <<PlaceholderOption>> \o out.options
                    ELSE select,
         caught |-> out.threw]

\* The body of fetchActivities after `await response.json()` resolved with
\* `body`: the list container and the dropdown it leaves, given the dropdown
\* before, and whether the catch block ran.
RenderActivities(body, refreshDropdown, select) ==
    LET out == ForEachEntry(body, [cards |-> <<>>, options |-> <<>>, threw |-> FALSE])
    IN  [list |-> IF out.threw THEN FailedList ELSE CardList(out.cards),
         select |-> IF refreshDropdown
                    THEN <<PlaceholderOption>> \o out.options
                    ELSE select,
         caught |-> out.threw]

\* A slip in the catch block: the list container is left as it was.
FetchCatch_KeepList(select) ==
    [list |-> activitiesList, select |-> select, caught |-> TRUE]

\* The catch block of fetchActivities when one of its awaits rejected.
FetchCatch(select) ==
    [list |-> FailedList, select |-> select, caught |-> TRUE]

\* fetchActivities(refreshDropdown) up to `await fetch("/activities")`.
FetchActivities(refreshDropdown, awaited) ==
    Request(issued + 1, "GET", "", "", refreshDropdown, awaited, <<>>)

Log(site) == [console EXCEPT ![site] = @ + 1]

\* ---------------------------------------------------------------- Init
\* The page after DOMContentLoaded: the static markup (loading text, a
\* dropdown holding the placeholder, an empty form, a hidden message area)
\* and the initial fetchActivities() waiting for its answer.
Init ==
    /\ activitiesList = LoadingList
    /\ activitySelect = <<PlaceholderOption>>
    /\ form = [email |-> "", activity |-> ""]
    /\ messageDiv = [textContent |-> "", classList |-> {"hidden"}]
    /\ timers = <<>>
    /\ net = {Request(1, "GET", "", "", TRUE, FALSE, <<>>)}
    /\ issued = 1
    /\ console = [fetch |-> 0, signup |-> 0, unregister |-> 0]
    /\ store = InitialStore
    /\ faults = 0
    /\ lastGet = [req |-> NoRequest, rejected |-> FALSE, newest |-> 0]
    /\ last = Step("load", NoRequest)

OptionValues == {activitySelect[i].value : i \in 1..Len(activitySelect)}
DeleteButtons ==
    UNION {SeqToSet(activitiesList.cards[i].participantsList.rows)
             : i \in 1..Len(activitiesList.cards)}

\* ------------------------------------------------------------ user events
\* The user fills the form and submits it: the submit handler up to
\* `await fetch(.../signup)`.
Submit(email, activity, budget) ==
    /\ issued < budget
    /\ activity \in OptionValues
    /\ LET r == Request(issued + 1, "POST", activity, email, FALSE, FALSE,
                        activitySelect) IN
       /\ net' = net \cup {r}
       /\ last' = Step("submit", r)
    /\ form' = [email |-> email, activity |-> activity]
    /\ issued' = issued + 1
    /\ UNCHANGED <<activitiesList, activitySelect, messageDiv, timers, console,
                   store, faults, lastGet>>

\* The user clicks a rendered delete button: unregisterParticipant(name,
\* email) up to `await fetch(.../unregister)`.
UnregisterParticipant(name, email, budget) ==
    /\ issued < budget
    /\ LET r == Request(issued + 1, "DELETE", name, email, FALSE, FALSE, <<>>) IN
       /\ net' = net \cup {r}
       /\ last' = Step("click", r)
    /\ issued' = issued + 1
    /\ UNCHANGED <<activitiesList, activitySelect, form, messageDiv, timers,
                   console, store, faults, lastGet>>

ClickDelete(budget) ==
    \E b \in DeleteButtons :
        /\ b.onclick # <<>>
        /\ UnregisterParticipant(b.onclick[1], b.onclick[2], budget)

\* --------------------------------------------------------------- backend
\* The store's answer to a request, and the store after it.
Answer(r) ==
    IF r.method = "GET"
    THEN [resp |-> Response(TRUE, TRUE, Undefined, Undefined, Snapshot(store)),
          store |-> store]
    ELSE IF r.activity \notin DOMAIN store
    THEN [resp |-> Response(FALSE, TRUE, Undefined, "Activity not found", <<>>),
          store |-> store]
    ELSE IF r.method = "POST"
    THEN IF r.email \in SeqToSet(store[r.activity])
         THEN [resp |-> Response(FALSE, TRUE, Undefined, "Already signed up", <<>>),
               store |-> store]
         ELSE IF Len(store[r.activity]) >= MaxParticipants[r.activity]
         THEN [resp |-> Response(FALSE, TRUE, Undefined, "Activity is full", <<>>),
               store |-> store]
         ELSE [resp |-> Response(TRUE, TRUE, "Signed up", Undefined, <<>>),
               store |-> [store EXCEPT ![r.activity] = Append(@, r.email)]]
    ELSE IF r.email \notin SeqToSet(store[r.activity])
         THEN [resp |-> Response(FALSE, TRUE, Undefined, "Not signed up", <<>>),
               store |-> store]
         ELSE [resp |-> Response(TRUE, TRUE, "Unregistered", Undefined, <<>>),
               store |-> [store EXCEPT ![r.activity] = Without(@, r.email)]]

\* Answers that do not come from the store's logic: an error status with a
\* JSON body without `detail`, and bodies that are not JSON (either status).
Faults(r) ==
    {Response(FALSE, TRUE, Undefined, Undefined,
              IF r.method = "GET" THEN ErrorBody ELSE <<>>),
     Response(FALSE, FALSE, Undefined, Undefined, <<>>),
     Response(TRUE, FALSE, Undefined, Undefined, <<>>)}

Serve(r) ==
    /\ r.phase = "sent"
    /\ LET a == Answer(r) IN
       /\ store' = a.store
       /\ net' = (net \ {r}) \cup {[r EXCEPT !.phase = "answered", !.resp = a.resp]}
    /\ UNCHANGED <<activitiesList, activitySelect, form, messageDiv, timers,
                   issued, console, faults, lastGet, last>>

ServeFault(r) ==
    /\ r.phase = "sent"
    /\ faults < MaxFaults
    /\ faults' = faults + 1
    /\ \E f \in Faults(r) :
         net' = (net \ {r}) \cup {[r EXCEPT !.phase = "answered", !.resp = f]}
    /\ UNCHANGED <<activitiesList, activitySelect, form, messageDiv, timers,
                   issued, console, store, lastGet, last>>

\* Another user of the store signs up or unregisters successfully.
OtherUser ==
    /\ faults < MaxFaults
    /\ \E m \in {"POST", "DELETE"}, n \in DOMAIN store, e \in OtherEmails :
         LET a == Answer(Request(0, m, n, e, FALSE, FALSE, <<>>)) IN
         /\ a.resp.ok
         /\ store' = a.store
    /\ faults' = faults + 1
    /\ UNCHANGED <<activitiesList, activitySelect, form, messageDiv, timers, net,
                   issued, console, lastGet, last>>

\* ------------------------------------------------------ fetchActivities
\* A change of fetchActivities: an answer to a request issued before the
\* newest one already processed is dropped.
FetchOutcome_DropStale(r, rejected) ==
    IF r.id < lastGet.newest
    THEN [list |-> activitiesList, select |-> activitySelect, caught |-> FALSE]
    ELSE IF rejected \/ ~r.resp.parses
    THEN FetchCatch(activitySelect)
    ELSE RenderActivities(r.resp.body, r.refreshDropdown, activitySelect)

\* `rejected`: fetch("/activities") rejected (transport failure); otherwise
\* the answer has arrived and response.json() resolves or rejects.
FetchOutcome(r, rejected) ==
    IF rejected \/ ~r.resp.parses
    THEN FetchCatch(activitySelect)
    ELSE RenderActivities(r.resp.body, r.refreshDropdown, activitySelect)

\* Lines 143-148 (and 97-102): show the message area and schedule its hide.
ShowMessage(m, ts) ==
    [message |-> RemoveHidden(m), timers |-> SetTimeout(ts)]

\* The rest of fetchActivities once its awaits have settled, followed, when
\* the call was awaited by unregisterParticipant, by the rest of that handler.
FetchActivitiesSettle(r, rejected) ==
    /\ r \in net
    /\ rejected => faults < MaxFaults
    /\ faults' = IF rejected THEN faults + 1 ELSE faults
    /\ r.method = "GET"
    /\ rejected \/ r.phase = "answered"
    /\ LET out == FetchOutcome(r, rejected) IN
       /\ activitiesList' = out.list
       /\ activitySelect' = out.select
       /\ console' = IF out.caught THEN Log("fetch") ELSE console
    /\ form' = IF r.refreshDropdown /\ ~rejected /\ r.resp.parses
               THEN [form EXCEPT !.activity = ""]
               ELSE form
    /\ IF r.awaited
       THEN LET shown == ShowMessage(messageDiv, timers) IN
            /\ messageDiv' = shown.message
            /\ timers' = shown.timers
       ELSE UNCHANGED <<messageDiv, timers>>
    /\ net' = net \ {r}
    /\ lastGet' = [req |-> r, rejected |-> rejected,
                   newest |-> IF r.id > lastGet.newest THEN r.id ELSE lastGet.newest]
    /\ last' = Step(IF rejected THEN "fetchRejected" ELSE "fetchAnswered", r)
    /\ UNCHANGED <<issued, store>>

\* ------------------------------------------------------- submit handler
\* A slip in line 91: fetchActivities() called with its default argument.
SignupResult_RefreshDropdown(resp) ==
    IF resp.ok
    THEN [message |-> SetMessage(resp.message, "success"),
          reset |-> TRUE, reload |-> {FetchActivities(TRUE, FALSE)}]
    ELSE [message |-> SetMessage(OrElse(resp.detail, AnErrorOccurred), "error"),
          reset |-> FALSE, reload |-> {}]

\* A change of line 91: the handler awaits the reload before it shows the
\* message.
SignupResult_AwaitReload(resp) ==
    IF resp.ok
    THEN [message |-> SetMessage(resp.message, "success"),
          reset |-> TRUE, reload |-> {FetchActivities(FALSE, TRUE)}]
    ELSE [message |-> SetMessage(OrElse(resp.detail, AnErrorOccurred), "error"),
          reset |-> FALSE, reload |-> {}]

\* Lines 87-95: what the handler does with a parsed answer.
SignupResult(resp) ==
    IF resp.ok
    THEN [message |-> SetMessage(resp.message, "success"),
          reset |-> TRUE, reload |-> {FetchActivities(FALSE, FALSE)}]
    ELSE [message |-> SetMessage(OrElse(resp.detail, AnErrorOccurred), "error"),
          reset |-> FALSE, reload |-> {}]

\* A slip in the catch block: the failure is only logged.
SignupCatch_LogOnly(ts) ==
    [message |-> messageDiv, timers |-> ts, console |-> Log("signup"),
     reset |-> FALSE, reload |-> {}]

\* A slip in the catch block: the form is reset and the list reloaded as on
\* success.
SignupCatch_AsSuccess(ts) ==
    [message |-> RemoveHidden(SetMessage(FailedToSignUp, "error")),
     timers |-> ts, console |-> Log("signup"),
     reset |-> TRUE, reload |-> {FetchActivities(FALSE, FALSE)}]

\* Lines 103-108: the catch block.
SignupCatch(ts) ==
    [message |-> RemoveHidden(SetMessage(FailedToSignUp, "error")),
     timers |-> ts, console |-> Log("signup"),
     reset |-> FALSE, reload |-> {}]

SignupSettle(r, rejected, budget) ==
    /\ r \in net
    /\ rejected => faults < MaxFaults
    /\ faults' = IF rejected THEN faults + 1 ELSE faults
    /\ r.method = "POST"
    /\ rejected \/ r.phase = "answered"
    /\ IF rejected \/ ~r.resp.parses
       THEN LET c == SignupCatch(timers) IN
            /\ messageDiv' = c.message
            /\ timers' = c.timers
            /\ console' = c.console
            /\ form' = IF c.reset THEN [email |-> "", activity |-> ""] ELSE form
            /\ issued + Cardinality(c.reload) <= budget
            /\ net' = (net \ {r}) \cup c.reload
            /\ issued' = issued + Cardinality(c.reload)
       ELSE LET res == SignupResult(r.resp)
                shown == ShowMessage(res.message, timers) IN
            /\ messageDiv' = shown.message
            /\ timers' = shown.timers
            /\ form' = IF res.reset THEN [email |-> "", activity |-> ""] ELSE form
            /\ issued + Cardinality(res.reload) <= budget
            /\ net' = (net \ {r}) \cup res.reload
            /\ issued' = issued + Cardinality(res.reload)
            /\ UNCHANGED console
    /\ last' = Step(IF rejected THEN "signupRejected" ELSE "signupAnswered", r)
    /\ UNCHANGED <<activitiesList, activitySelect, store, lastGet>>

\* ------------------------------------------------- unregisterParticipant
\* A slip in lines 133-137: the reload is left out.
UnregisterResult_NoReload(resp) ==
    IF resp.ok
    THEN [message |-> SetMessage(resp.message, "success"), reload |-> {}]
    ELSE [message |-> SetMessage(OrElse(resp.detail, AnErrorOccurred), "error"),
          reload |-> {}]

\* A slip in lines 133-141: the reload is moved after the if/else, so that
\* it also runs for an error status.
UnregisterResult_ReloadOnError(resp) ==
    IF resp.ok
    THEN [message |-> SetMessage(resp.message, "success"),
          reload |-> {FetchActivities(FALSE, TRUE)}]
    ELSE [message |-> SetMessage(OrElse(resp.detail, AnErrorOccurred), "error"),
          reload |-> {FetchActivities(FALSE, TRUE)}]

\* Lines 133-141: what the handler does with a parsed answer. On success the
\* handler awaits the reload before it goes on to lines 143-148.
UnregisterResult(resp) ==
    IF resp.ok
    THEN [message |-> SetMessage(resp.message, "success"),
          reload |-> {FetchActivities(FALSE, TRUE)}]
    ELSE [message |-> SetMessage(OrElse(resp.detail, AnErrorOccurred), "error"),
          reload |-> {}]

\* Lines 149-154: the catch block.
UnregisterCatch(ts) ==
    [message |-> RemoveHidden(SetMessage(FailedToUnregister, "error")),
     timers |-> ts, console |-> Log("unregister")]

UnregisterSettle(r, rejected, budget) ==
    /\ r \in net
    /\ rejected => faults < MaxFaults
    /\ faults' = IF rejected THEN faults + 1 ELSE faults
    /\ r.method = "DELETE"
    /\ rejected \/ r.phase = "answered"
    /\ IF rejected \/ ~r.resp.parses
       THEN LET c == UnregisterCatch(timers) IN
            /\ messageDiv' = c.message
            /\ timers' = c.timers
            /\ console' = c.console
            /\ net' = net \ {r}
            /\ UNCHANGED issued
       ELSE LET res == UnregisterResult(r.resp) IN
            /\ IF res.reload = {}
               THEN LET shown == ShowMessage(res.message, timers) IN
                    /\ messageDiv' = shown.message
                    /\ timers' = shown.timers
               ELSE /\ messageDiv' = res.message
                    /\ timers' = timers
            /\ issued + Cardinality(res.reload) <= budget
            /\ net' = (net \ {r}) \cup res.reload
            /\ issued' = issued + Cardinality(res.reload)
            /\ UNCHANGED console
    /\ last' = Step(IF rejected THEN "unregisterRejected" ELSE "unregisterAnswered", r)
    /\ UNCHANGED <<activitiesList, activitySelect, form, store, lastGet>>

\* ------------------------------------------------------------------ time
TickStep == HideDelay \div TicksPerDelay
Min(a, b) == IF a < b THEN a ELSE b

\* The callback of a hide timer whose delay has elapsed.
HideMessage ==
    /\ timers # <<>>
    /\ Head(timers) = 0
    /\ messageDiv' = AddHidden(messageDiv)
    /\ timers' = Tail(timers)
    /\ last' = Step(IF Hidden THEN "hideHidden" ELSE "hideVisible", NoRequest)
    /\ UNCHANGED <<activitiesList, activitySelect, form, net, issued, console,
                   store, faults, lastGet>>

\* Time passes while timers are pending, up to the next timer's expiry; a
\* due timer runs before more time passes.
Tick ==
    /\ timers # <<>>
    /\ Head(timers) > 0
    /\ LET d == Min(TickStep, Head(timers)) IN
       timers' = [i \in 1..Len(timers) |-> timers[i] - d]
    /\ UNCHANGED <<activitiesList, activitySelect, form, messageDiv, net, issued,
                   console, store, faults, lastGet, last>>

\* ------------------------------------------------------------------ Next
Next ==
    \/ \E e \in Emails, a \in OptionValues : Submit(e, a, MaxRequests)
    \/ ClickDelete(MaxRequests)
    \/ \E r \in net : Serve(r)
    \/ \E r \in net : ServeFault(r)
    \/ OtherUser
    \/ \E r \in net : FetchActivitiesSettle(r, FALSE)
    \/ \E r \in net : FetchActivitiesSettle(r, TRUE)
    \/ \E r \in net : SignupSettle(r, FALSE, MaxRequests)
    \/ \E r \in net : SignupSettle(r, TRUE, MaxRequests)
    \/ \E r \in net : UnregisterSettle(r, FALSE, MaxRequests)
    \/ \E r \in net : UnregisterSettle(r, TRUE, MaxRequests)
    \/ HideMessage
    \/ Tick

Spec == Init /\ [][Next]_vars

\* The page when nothing fails and all of it happens within the hide delay:
\* two user actions that succeed, and the reloads they start.
ReloadRequests == MaxRequests + 2

NextReload ==
    \/ \E e \in Emails, a \in OptionValues : Submit(e, a, ReloadRequests)
    \/ ClickDelete(ReloadRequests)
    \/ \E r \in net : Serve(r)
    \/ \E r \in net : FetchActivitiesSettle(r, FALSE)
    \/ \E r \in net : SignupSettle(r, FALSE, ReloadRequests)
    \/ \E r \in net : UnregisterSettle(r, FALSE, ReloadRequests)

SpecReload == Init /\ [][NextReload]_vars

\* The store answers the requests it has received, and the event loop runs
\* the continuation of fetchActivities once its answer has arrived.
Fairness ==
    /\ WF_vars(\E r \in net : Serve(r))
    /\ WF_vars(\E r \in net : FetchActivitiesSettle(r, FALSE))

\* The page while less than the hide delay passes (no timer expires), with
\* that progress.
NextUntimed ==
    \/ \E e \in Emails, a \in OptionValues : Submit(e, a, MaxRequests)
    \/ ClickDelete(MaxRequests)
    \/ \E r \in net : Serve(r)
    \/ \E r \in net : ServeFault(r)
    \/ OtherUser
    \/ \E r \in net : FetchActivitiesSettle(r, FALSE)
    \/ \E r \in net : FetchActivitiesSettle(r, TRUE)
    \/ \E r \in net : SignupSettle(r, FALSE, MaxRequests)
    \/ \E r \in net : SignupSettle(r, TRUE, MaxRequests)
    \/ \E r \in net : UnregisterSettle(r, FALSE, MaxRequests)
    \/ \E r \in net : UnregisterSettle(r, TRUE, MaxRequests)

FairSpec == Init /\ [][NextUntimed]_vars /\ Fairness

\* ------------------------------------------------------------ properties
\* The step being taken runs the client task `op`.
Ran(op) == last' # last /\ last'.op = op

FetchOps == {"fetchAnswered", "fetchRejected"}
SignupOps == {"signupAnswered", "signupRejected"}
UnregisterOps == {"unregisterAnswered", "unregisterRejected"}

\* The request the last task settled came back as parsed JSON, with a 2xx
\* status (Accepted) or with an error status (Refused).
Accepted(r) == r.resp.parses /\ r.resp.ok
Refused(r) == r.resp.parses /\ ~r.resp.ok

\* The emails of a card's participant rows, in order.
RowEmails(card) ==
    [i \in 1..Len(card.participantsList.rows) |->
        card.participantsList.rows[i].email]

\* The list container shows the activity map `body`: one card per entry, in
\* order, each with the entry's name and participants.
Shows(list, body) ==
    /\ list.text = ""
    /\ Len(list.cards) = Len(body)
    /\ \A i \in 1..Len(body) :
         /\ list.cards[i].name = body[i].name
         /\ RowEmails(list.cards[i]) = body[i].details.participants

\* The answer to a GET that fetchActivities cannot render.
Unrenderable(r) ==
    \/ ~r.resp.parses
    \/ \E i \in 1..Len(r.resp.body) : ~r.resp.body[i].details.hasParticipants

\* What the list container holds once the GET request r has been settled.
ShowsResultOf(list, op, r) ==
    IF op = "fetchRejected" \/ Unrenderable(r)
    THEN list = FailedList
    ELSE Shows(list, r.resp.body)

\* C1: when the unregister request comes back 2xx, the handler sets the
\* server's message with "success" styling (which shows the message area) and
\* starts fetchActivities(false), which it awaits; once that reload has been
\* settled its result is in the list container and the message area is
\* visible; and under FairSpec every such reload is settled eventually.
C1_UnregisterSuccessState ==
    /\ (last.op = "unregisterAnswered" /\ Accepted(last.req)) =>
         /\ messageDiv = [textContent |-> last.req.resp.message,
                          classList |-> {"success"}]
         /\ \E g \in net : /\ g.id = issued
                           /\ g.method = "GET"
                           /\ ~g.refreshDropdown
                           /\ g.awaited
    /\ (last.op \in FetchOps /\ last.req.awaited) =>
         /\ ShowsResultOf(activitiesList, last.op, last.req)
         /\ ~Hidden
         /\ timers # <<>>

C3_HiddenAgain ==
    ~Hidden => (timers # <<>> \/ \E g \in net : g.awaited)

\* C4: when the signup request comes back with an error status, the form is
\* not reset, no request is issued, and the message area shows, with "error"
\* styling, the answer's detail, or "An error occurred" when it has none.
C4_SignupRefused ==
    [][(Ran("signupAnswered") /\ Refused(last'.req)) =>
          /\ form' = form
          /\ issued' = issued
          /\ net' = net \ {last'.req}
          /\ activitiesList' = activitiesList
          /\ messageDiv' =
               [textContent |-> IF last'.req.resp.detail = Undefined
                                THEN "An error occurred"
                                ELSE last'.req.resp.detail,
                classList |-> {"error"}]]_vars

C4_Witness ==
    /\ last.op = "signupAnswered"
    /\ last.req.resp.detail = "Activity is full"
    /\ messageDiv = [textContent |-> "Activity is full", classList |-> {"error"}]
    /\ form = [email |-> "b@x.com", activity |-> "Chess Club"]
    /\ \A g \in net : g.method # "GET"

\* C5: when the unregister request comes back with an error status, the
\* message area shows, with "error" styling, the answer's detail unchanged, or
\* "An error occurred" when it has none, and no reload is issued.
C5_UnregisterRefused ==
    [][(Ran("unregisterAnswered") /\ Refused(last'.req)) =>
          /\ issued' = issued
          /\ net' = net \ {last'.req}
          /\ activitiesList' = activitiesList
          /\ messageDiv' =
               [textContent |-> IF last'.req.resp.detail = Undefined
                                THEN "An error occurred"
                                ELSE last'.req.resp.detail,
                classList |-> {"error"}]]_vars

C5_Witness ==
    /\ last.op = "unregisterAnswered"
    /\ last.req.resp.detail = "Not signed up"
    /\ messageDiv = [textContent |-> "Not signed up", classList |-> {"error"}]
    /\ \A g \in net : g.method # "GET"

\* The requests of n2 that are not in n1 (by id).
NewRequests(n1, n2) == {q \in n2 : \A r \in n1 : r.id # q.id}

LastGetOp == IF lastGet.rejected THEN "fetchRejected" ELSE "fetchAnswered"

SchedulesHide ==
    \/ Ran("signupAnswered") /\ last'.req.resp.parses
    \/ Ran("unregisterAnswered") /\ Refused(last'.req)
    \/ (Ran("fetchAnswered") \/ Ran("fetchRejected")) /\ last'.req.awaited

\* C7: every show that schedules a hide adds its own timer of 5000 ms and
\* leaves the pending ones as they are; a pending timer only counts down, and
\* is removed only when it expires and hides the message area.
C7_IndependentTimers ==
    [][IF SchedulesHide
       THEN timers' = Append(timers, HideDelay)
       ELSE \/ timers' = timers
            \/ /\ timers # <<>>
               /\ Head(timers) = 0
               /\ timers' = Tail(timers)
               /\ "hidden" \in messageDiv'.classList
            \/ /\ timers # <<>>
               /\ Len(timers') = Len(timers)
               /\ timers'[1] < timers[1]
               /\ \A i \in 1..Len(timers) :
                    /\ timers'[i] >= 0
                    /\ timers[i] - timers'[i] = timers[1] - timers'[1]]_vars

\* Premature hide: an expired timer has just hidden a visible message area
\* while the timer of a later message still has time left.
C7_Witness ==
    /\ last.op = "hideVisible"
    /\ Hidden
    /\ timers # <<>>
    /\ timers[Len(timers)] > 0
    /\ timers[Len(timers)] < HideDelay

\* C8: the list container holds the loading content until the first GET
\* /activities answer is processed, and from then on the result of the answer
\* processed last (the failure message or the rendering of its map); no step
\* other than the rest of fetchActivities changes it; a submit or a click
\* sends exactly one mutating request and no other step sends one.
C8_ListReflectsLastFetch ==
    /\ [](IF lastGet.req.id = 0
          THEN activitiesList = LoadingList
          ELSE ShowsResultOf(activitiesList, LastGetOp, lastGet.req))
    /\ [][~(Ran("fetchAnswered") \/ Ran("fetchRejected")) =>
             activitiesList' = activitiesList]_vars
    /\ [][LET new == NewRequests(net, net') IN
          IF Ran("submit") \/ Ran("click")
          THEN /\ new = {last'.req}
               /\ last'.req.method = IF Ran("submit") THEN "POST" ELSE "DELETE"
               /\ issued' = issued + 1
          ELSE \A q \in new : q.method = "GET"]_vars

\* A signup has been accepted and the list still shows the map fetched
\* before it.
C8_Witness ==
    /\ last.op = "signupAnswered"
    /\ Accepted(last.req)
    /\ lastGet.req.id > 0
    /\ Shows(activitiesList, lastGet.req.resp.body)
    /\ lastGet.req.resp.body # Snapshot(store)

SuccessMessages == {"Signed up", "Unregistered"}

\* The last task was the submit handler or unregisterParticipant ending in
\* one of the error kinds.
EndedInError ==
    /\ last.op \in SignupOps \cup UnregisterOps
    /\ ~(last.op \in {"signupAnswered", "unregisterAnswered"} /\ Accepted(last.req))

\* C9: for signup and unregister, every error kind (transport failure, error
\* status with or without detail, malformed JSON) ends with the message area
\* visible, styled "error", with an error text; every answer in flight has a
\* continuation (nothing escapes the handler), and the handlers can be invoked
\* again afterwards.
C9_ErrorsBecomeMessages ==
    /\ EndedInError =>
         /\ ~Hidden
         /\ messageDiv.classList = {"error"}
         /\ messageDiv.textContent \notin {"", Undefined} \cup SuccessMessages
         /\ issued < MaxRequests =>
              /\ ENABLED (\E e \in Emails, a \in OptionValues :
                             Submit(e, a, MaxRequests))
              /\ DeleteButtons # {} => ENABLED ClickDelete(MaxRequests)
    /\ \A r \in net :
         (r.phase = "answered" /\ ~Accepted(r)) =>
             CASE r.method = "POST" -> ENABLED SignupSettle(r, FALSE, MaxRequests)
               [] r.method = "DELETE" -> ENABLED UnregisterSettle(r, FALSE, MaxRequests)
               [] OTHER -> ENABLED FetchActivitiesSettle(r, FALSE)

C9_Witness ==
    /\ last.op = "unregisterAnswered"
    /\ ~last.req.resp.parses
    /\ messageDiv = [textContent |-> FailedToUnregister, classList |-> {"error"}]
    /\ DeleteButtons # {}

MaxEntries == 2
MaxRoster == 2

Injective(f) == \A i, j \in DOMAIN f : f[i] = f[j] => i = j
DistinctSeqs(S, n) ==
    UNION {{f \in [1..k -> S] : Injective(f)} : k \in 0..n}

\* The activity maps: distinct keys, each with a roster of distinct emails.
RenderEntry(n, roster) ==
    [name |-> n,
     details |-> [description |-> "about " \o n,
                  schedule |-> "weekly",
                  max_participants |-> MaxRoster,
                  hasParticipants |-> TRUE,
                  participants |-> roster]]
ActivityMaps(names, emails) ==
    UNION {{[i \in 1..Len(ns) |-> RenderEntry(ns[i], ros[i])]
              : ros \in [1..Len(ns) -> DistinctSeqs(emails, MaxRoster)]}
             : ns \in DistinctSeqs(names, MaxEntries)}

\* The answers fetchActivities may get: any activity map, or one of the
\* answers it cannot parse or render.
RenderResponses(names, emails) ==
    {Response(TRUE, TRUE, Undefined, Undefined, m) : m \in ActivityMaps(names, emails)}
        \cup Faults(Request(1, "GET", "", "", TRUE, FALSE, <<>>))

\* The page before the call: fresh (the initial call, refreshDropdown = true),
\* or rendered by the initial call from the initial store, with either value
\* selected since.
InitialLoad ==
    [Request(1, "GET", "", "", TRUE, FALSE, <<>>)
       EXCEPT !.phase = "answered",
              !.resp = Response(TRUE, TRUE, Undefined, Undefined,
                                Snapshot(InitialStore))]
LoadedPage == RenderActivities(Snapshot(InitialStore), TRUE, <<PlaceholderOption>>)
RenderPages ==
    {[list |-> LoadingList, select |-> <<PlaceholderOption>>,
      selected |-> "", refreshDropdown |-> TRUE, issued |-> 1,
      lastGet |-> [req |-> NoRequest, rejected |-> FALSE, newest |-> 0]]}
        \cup {[list |-> LoadedPage.list, select |-> LoadedPage.select,
               selected |-> v, refreshDropdown |-> b, issued |-> 2,
               lastGet |-> [req |-> InitialLoad, rejected |-> FALSE, newest |-> 1]]
                : v \in {"", "Chess Club"}, b \in BOOLEAN}

InitRender ==
    /\ \E pg \in RenderPages, resp \in RenderResponses(RenderNames, RenderEmails) :
         /\ activitiesList = pg.list
         /\ activitySelect = pg.select
         /\ form = [email |-> "", activity |-> pg.selected]
         /\ net = {[Request(pg.issued, "GET", "", "", pg.refreshDropdown, FALSE, <<>>)
                      EXCEPT !.phase = "answered", !.resp = resp]}
         /\ issued = pg.issued
         /\ lastGet = pg.lastGet
    /\ messageDiv = [textContent |-> "", classList |-> {"hidden"}]
    /\ timers = <<>>
    /\ console = [fetch |-> 0, signup |-> 0, unregister |-> 0]
    /\ store = InitialStore
    /\ faults = 0
    /\ last = Step("load", NoRequest)

NextRender ==
    \/ \E r \in net : FetchActivitiesSettle(r, FALSE)
    \/ \E r \in net : FetchActivitiesSettle(r, TRUE)

SpecRender == InitRender /\ [][NextRender]_vars

\* The last task rendered an activity map.
Rendered == last.op = "fetchAnswered" /\ ~Unrenderable(last.req)

\* C11: once a GET /activities answer with an activity map has been
\* processed, the list container holds one card per key of the map, in the
\* map's order, and each card's capacity text is the number of participants,
\* a slash, and max_participants.
C11_CardPerKey ==
    Rendered =>
        LET body == last.req.resp.body IN
        /\ activitiesList.text = ""
        /\ Len(activitiesList.cards) = Len(body)
        /\ \A i \in 1..Len(body) :
             /\ activitiesList.cards[i].name = body[i].name
             /\ activitiesList.cards[i].capacity =
                  NumStr(Len(body[i].details.participants)) \o "/"
                    \o NumStr(body[i].details.max_participants)

\* Two cards, one of an activity without participants and one of a full one.
C11_Witness ==
    /\ Rendered
    /\ Len(activitiesList.cards) = 2
    /\ activitiesList.cards[1].capacity = "0/" \o NumStr(MaxRoster)
    /\ activitiesList.cards[2].capacity = NumStr(MaxRoster) \o "/" \o NumStr(MaxRoster)

\* C12: for every rendered activity, a card of an activity without
\* participants shows the "No participants yet" placeholder and no row;
\* otherwise it shows no placeholder and one row per participant, in order,
\* each with the participant's email and a delete button whose click calls
\* unregisterParticipant with that activity's name and that email.
C12_ParticipantRows ==
    Rendered =>
        \A i \in 1..Len(activitiesList.cards) :
            LET name == last.req.resp.body[i].name
                participants == last.req.resp.body[i].details.participants
                shown == activitiesList.cards[i].participantsList
            IN  IF participants = <<>>
                THEN shown = [rows |-> <<>>, placeholder |-> "No participants yet"]
                ELSE /\ shown.placeholder = ""
                     /\ Len(shown.rows) = Len(participants)
                     /\ \A j \in 1..Len(participants) :
                          /\ shown.rows[j].email = participants[j]
                          /\ shown.rows[j].onclick = <<name, participants[j]>>

\* C13: a fetchActivities(true) call that renders its answer leaves in the
\* dropdown the placeholder option (empty value, "-- Select an activity --")
\* followed by one option per activity name of the map, in the map's order,
\* and nothing else: the options from before the call are gone.
C13_DropdownRebuilt ==
    [][(Ran("fetchAnswered") /\ ~Unrenderable(last'.req)
            /\ last'.req.refreshDropdown) =>
          LET body == last'.req.resp.body IN
          /\ Len(activitySelect') = Len(body) + 1
          /\ activitySelect'[1] =
               [value |-> "", textContent |-> "-- Select an activity --"]
          /\ \A i \in 1..Len(body) :
               activitySelect'[i + 1] =
                   [value |-> body[i].name, textContent |-> body[i].name]]_vars

\* A second call rebuilt the dropdown from a map of two activities without
\* "Chess Club", which the dropdown offered before.
C13_Witness ==
    /\ Rendered
    /\ last.req.refreshDropdown
    /\ last.req.id = 2
    /\ Len(activitySelect) = 3
    /\ "Chess Club" \notin OptionValues

\* C14: a fetchActivities(false) call, whether it renders its answer or
\* fails, leaves the dropdown's options and the selected value as they were
\* (and the rest of the form, the message area and the timers); it issues no
\* request.
C14_DropdownKept ==
    [][((Ran("fetchAnswered") \/ Ran("fetchRejected"))
            /\ ~last'.req.refreshDropdown /\ ~last'.req.awaited) =>
          /\ activitySelect' = activitySelect
          /\ form' = form
          /\ messageDiv' = messageDiv
          /\ timers' = timers
          /\ issued' = issued
          /\ net' = net \ {last'.req}]_vars

\* The call replaced the list by the cards of a map without "Chess Club"
\* while the dropdown still offers it and it is still selected.
C14_Witness ==
    /\ Rendered
    /\ ~last.req.refreshDropdown
    /\ activitiesList.cards # <<>>
    /\ \A i \in 1..Len(activitiesList.cards) :
         activitiesList.cards[i].name # "Chess Club"
    /\ activitySelect = <<PlaceholderOption, Option("Chess Club")>>
    /\ form.activity = "Chess Club"

\* The cards of a whole activity map, one per entry, in order.
CardsOf(body) ==
    [i \in 1..Len(body) |-> ActivityCard(body[i].name, body[i].details)]

C15_LogsTransportOnly ==
    [][/\ (console'.signup # console.signup) => Ran("signupRejected")
       /\ (console'.unregister # console.unregister) => Ran("unregisterRejected")
       /\ (Ran("signupAnswered") \/ Ran("unregisterAnswered")) =>
             console' = console]_vars

\* The requests of the step that are reloads of the list.
Reloads(n1, n2) == {g \in NewRequests(n1, n2) : g.method = "GET"}

\* C17: when the signup request comes back 2xx, the handler shows the
\* server's message with "success" styling and schedules its hide in the step
\* that starts the reload, which it does not await; when that reload then
\* fails, the list container gets the failure message and the message area
\* and the timers stay as they are.
C17_ReloadFailureKeepsMessage ==
    [][/\ (Ran("signupAnswered") /\ Accepted(last'.req)) =>
             /\ messageDiv' = [textContent |-> last'.req.resp.message,
                               classList |-> {"success"}]
             /\ timers' = Append(timers, HideDelay)
             /\ Cardinality(Reloads(net, net')) = 1
             /\ \A g \in Reloads(net, net') : g.phase = "sent" /\ ~g.awaited
       /\ (((Ran("fetchAnswered") /\ Unrenderable(last'.req)) \/ Ran("fetchRejected"))
              /\ ~last'.req.awaited) =>
             /\ activitiesList' = FailedList
             /\ messageDiv' = messageDiv
             /\ timers' = timers]_vars

\* The reload after an accepted signup has failed: the success message is
\* still shown, its timer pending, over the failure message in the list.
C17_Witness ==
    /\ last.op \in FetchOps
    /\ last.req.id > 1
    /\ ~last.req.awaited
    /\ last.op = "fetchRejected" \/ Unrenderable(last.req)
    /\ messageDiv = [textContent |-> "Signed up", classList |-> {"success"}]
    /\ timers # <<>>
    /\ activitiesList = FailedList

\* C18: a step in which the submit handler or unregisterParticipant handles
\* a transport failure or a body that is not JSON changes the message area
\* (and the log) only: the list container, the dropdown and the form stay as
\* they are and no request is issued.
C18_FailureTouchesMessageOnly ==
    [][((Ran("signupRejected") \/ Ran("unregisterRejected")
           \/ ((Ran("signupAnswered") \/ Ran("unregisterAnswered"))
                 /\ ~last'.req.resp.parses))) =>
          /\ activitiesList' = activitiesList
          /\ activitySelect' = activitySelect
          /\ form' = form
          /\ issued' = issued
          /\ net' = net \ {last'.req}
          /\ timers' = timers
          /\ messageDiv'.classList = {"error"}]_vars

\* A signup failed at transport level: the form still holds what was typed,
\* the list its cards and the dropdown its options.
C18_Witness ==
    /\ last.op = "signupRejected"
    /\ messageDiv = [textContent |-> FailedToSignUp, classList |-> {"error"}]
    /\ form = [email |-> "b@x.com", activity |-> "Chess Club"]
    /\ activitiesList.cards # <<>>
    /\ Len(activitySelect) = 2
    /\ \A g \in net : g.method # "GET"

====
